---- MODULE Spec2Model ----
(***************************************************************************)
(* Sustainability telemetry: the sampling loop of app.py (estimate power,  *)
(* build one row, hand it to the CSV sink and to the Prometheus registry,  *)
(* sleep), the power probe chain of "Process based/main.py", and the two   *)
(* sinks taken on their own.                                               *)
(*                                                                         *)
(* Numbers are exact rationals n/d (d > 0, lowest terms); Python floats    *)
(* are modelled by the exact value of the expression they approximate.     *)
(* A value of a row is a record [k, s, n, d]: k = "num" (n/d), "str" (the  *)
(* text s, with n a serial number for per-tick texts) or "none" (None).    *)
(***************************************************************************)
EXTENDS Integers, Sequences, FiniteSets, TLC

-----------------------------------------------------------------------------
(* Values *)

RECURSIVE GCD(_, _)
GCD(a, b) ==
    IF b = 0 THEN a ELSE GCD(b, a % b)

Abs(x) ==
    IF x < 0 THEN -x ELSE x

\* n/d in lowest terms, as a row value.
Num(n, d) ==
    LET g == GCD(Abs(n), d)
    IN  [k |-> "num", s |-> "", n |-> n \div g, d |-> d \div g]

Str(text) ==
    [k |-> "str", s |-> text, n |-> 0, d |-> 1]

\* A per-tick text (the timestamp, the run id): the text of serial number t.
Stamp(text, t) ==
    [k |-> "str", s |-> text, n |-> t, d |-> 1]

None ==
    [k |-> "none", s |-> "", n |-> 0, d |-> 1]

\* a * (n/d) and a / (n/d) are both RMul; a + b is RAdd.
RMul(a, n, d) ==
    Num(a.n * n, a.d * d)

RAdd(a, b) ==
    LET g == GCD(a.d, b.d)
    IN  Num(a.n * (b.d \div g) + b.n * (a.d \div g), (a.d \div g) * b.d)

-----------------------------------------------------------------------------
(* app.py: schema *)

HEADERS ==
    << "timestamp", "project_name", "run_id", "duration", "emissions", "emissions_rate",
       "cpu_power", "gpu_power", "ram_power", "cpu_energy", "gpu_energy", "ram_energy",
       "energy_consumed", "country_name", "country_iso_code", "region", "on_cloud",
       "cloud_provider", "cloud_region", "os", "python_version", "cpu_count", "cpu_model",
       "cpu_name", "gpu_count", "gpu_model", "gpu_name", "longitude", "latitude",
       "ram_total_size", "ram_name", "tracking_mode" >>

NUMERIC_METRICS ==
    { "duration", "emissions", "emissions_rate", "cpu_power", "gpu_power", "ram_power",
      "cpu_energy", "gpu_energy", "ram_energy", "energy_consumed", "cpu_count",
      "gpu_count", "ram_total_size" }

TEXT_LABELS ==
    { "project_name", "country_name", "country_iso_code", "region", "on_cloud",
      "cloud_provider", "cloud_region", "os", "python_version", "cpu_model", "cpu_name",
      "gpu_model", "gpu_name", "longitude", "latitude", "ram_name", "tracking_mode" }

GRID_CARBON_FACTOR == 400

PROJECT_NAME ==
    "codecarbon"

\* Approximate CPU max power consumption, watts (the literal of line 180).
CPU_MAX_WATTS == 65

\* Approx watts per GB of RAM in use (the literal of line 191).
RAM_WATTS_PER_GB == 2

\* Sampling interval in seconds (duration = 1, and the 1 of 1 / 3600).
DURATION == 1

SECONDS_PER_HOUR == 3600

WATTS_PER_KW == 1000

MIB_PER_GB == 1024

-----------------------------------------------------------------------------
(* app.py: get_power_metrics *)

\* get_power_metrics with the GPU's energy left out of energy_consumed.
get_power_metrics_sum_without_gpu(cpu_usage, gpu_is_available, gpu, ram_used) ==
    LET cpu_power == RMul(Num(cpu_usage, 100), CPU_MAX_WATTS, 1)
        gpu_power == IF gpu_is_available /\ gpu.ok
                        THEN Num(gpu.mw, WATTS_PER_KW)
                        ELSE Num(0, 1)
        ram_power == RMul(Num(ram_used, MIB_PER_GB), RAM_WATTS_PER_GB, 1)
        energy(p) == RMul(RMul(p, 1, SECONDS_PER_HOUR), 1, WATTS_PER_KW)
        energy_consumed == RAdd(energy(cpu_power), energy(ram_power))
        emissions == RMul(RMul(energy_consumed, GRID_CARBON_FACTOR, 1), 1, WATTS_PER_KW)
    IN  << cpu_power, gpu_power, ram_power, energy(cpu_power), energy(gpu_power),
           energy(ram_power), energy_consumed, emissions, emissions >>

\* get_power_metrics with the energies left in watt-hours (the / 1000 forgotten).
get_power_metrics_energy_in_wh(cpu_usage, gpu_is_available, gpu, ram_used) ==
    LET cpu_power == RMul(Num(cpu_usage, 100), CPU_MAX_WATTS, 1)
        gpu_power == IF gpu_is_available /\ gpu.ok
                        THEN Num(gpu.mw, WATTS_PER_KW)
                        ELSE Num(0, 1)
        ram_power == RMul(Num(ram_used, MIB_PER_GB), RAM_WATTS_PER_GB, 1)
        energy(p) == RMul(p, 1, SECONDS_PER_HOUR)
        energy_consumed == RAdd(RAdd(energy(cpu_power), energy(gpu_power)), energy(ram_power))
        emissions == RMul(RMul(energy_consumed, GRID_CARBON_FACTOR, 1), 1, WATTS_PER_KW)
    IN  << cpu_power, gpu_power, ram_power, energy(cpu_power), energy(gpu_power),
           energy(ram_power), energy_consumed, emissions, emissions >>

\* cpu_usage: percent; gpu: [ok, mw], the outcome of the two NVML calls (ok =
\* FALSE: one of them raised); ram_used: psutil's used memory, here in MiB.
\* Returns the 9-tuple in the order of the return statement.
get_power_metrics(cpu_usage, gpu_is_available, gpu, ram_used) ==
    LET cpu_power == RMul(Num(cpu_usage, 100), CPU_MAX_WATTS, 1)
        gpu_power == IF gpu_is_available /\ gpu.ok
                        THEN Num(gpu.mw, WATTS_PER_KW)
                        ELSE Num(0, 1)
        ram_power == RMul(Num(ram_used, MIB_PER_GB), RAM_WATTS_PER_GB, 1)
        duration_hours == Num(1, SECONDS_PER_HOUR)
        energy(p) == RMul(RMul(p, duration_hours.n, duration_hours.d), 1, WATTS_PER_KW)
        cpu_energy == energy(cpu_power)
        gpu_energy == energy(gpu_power)
        ram_energy == energy(ram_power)
        energy_consumed == RAdd(RAdd(cpu_energy, gpu_energy), ram_energy)
        emissions == RMul(RMul(energy_consumed, GRID_CARBON_FACTOR, 1), 1, WATTS_PER_KW)
        emissions_rate == RMul(emissions, 1, 1)
    IN  << cpu_power, gpu_power, ram_power, cpu_energy, gpu_energy, ram_energy,
           energy_consumed, emissions, emissions_rate >>

\* The order in which get_power_metrics returns its values.
POWER_METRIC_NAMES ==
    << "cpu_power", "gpu_power", "ram_power", "cpu_energy", "gpu_energy", "ram_energy",
       "energy_consumed", "emissions", "emissions_rate" >>

-----------------------------------------------------------------------------
(* app.py: the row of one tick (the list literal `data` of main) *)

\* st: the static facts main collects once before the loop.
BuildData(timestamp, run_id, duration, power_metrics, st) ==
    << timestamp, Str(PROJECT_NAME), run_id, duration >>
    \o power_metrics
    \o << st.country_name, st.country_iso_code, st.region,
          IF st.cloud_provider # Str("N") THEN Str("Y") ELSE Str("N"),
          st.cloud_provider, st.cloud_region, st.os_info, st.python_version,
          st.cpu_count, st.cpu_model, st.cpu_name, st.gpu_count, st.gpu_model,
          st.gpu_name, st.longitude, st.latitude, st.ram_total_size, st.ram_name,
          Str("machine") >>

-----------------------------------------------------------------------------
(* app.py: the CSV sink *)

\* csv.writer renders None as the empty text; other cells keep their value.
CsvCell(v) ==
    IF v.k = "none" THEN Str("") ELSE v

CsvRow(data) ==
    [i \in 1..Len(data) |-> CsvCell(data[i])]

HeaderRow ==
    [i \in 1..Len(HEADERS) |-> Str(HEADERS[i])]

\* The outcomes of the two open() calls: "ok", "create_fails" (the open of mode
\* "w" raises: only when the file is absent), "append_fails" (the open of mode
\* "a", or the write through it, raises).
CsvIoOutcomes(file) ==
    IF file.exists THEN {"ok", "append_fails"} ELSE {"ok", "create_fails", "append_fails"}

\* save_to_csv without the os.path.isfile test: the header goes out on every call.
save_to_csv_header_each_call(file, data, io) ==
    IF ~file.exists /\ io = "create_fails"
       THEN [file |-> file, raised |-> TRUE]
    ELSE IF io = "append_fails"
       THEN [file |-> [exists |-> TRUE, rows |-> Append(file.rows, HeaderRow)],
             raised |-> TRUE]
    ELSE [file |-> [exists |-> TRUE,
                    rows |-> file.rows \o << HeaderRow, CsvRow(data) >>],
          raised |-> FALSE]

\* file: [exists, rows]. Returns the file afterwards and whether the call raised.
save_to_csv(file, data, io) ==
    LET created == IF ~file.exists /\ io # "create_fails"
                      THEN [exists |-> TRUE, rows |-> << HeaderRow >>]
                      ELSE file
    IN  IF ~file.exists /\ io = "create_fails"
           THEN [file |-> file, raised |-> TRUE]
        ELSE IF io = "append_fails"
           THEN [file |-> created, raised |-> TRUE]
        ELSE [file |-> [created EXCEPT !.rows = Append(@, CsvRow(data))],
              raised |-> FALSE]

-----------------------------------------------------------------------------
(* app.py: the metrics-registry sink *)

\* str(value) of a label value.
PyStr(v) ==
    IF v.k = "none" THEN Str("None") ELSE [v EXCEPT !.k = "str"]

\* The registry: one gauge per numeric metric (a new Gauge reads 0.0) and the
\* children of sustainability_info, one per label set it was given, each 1.
EmptyRegistry ==
    [gauges |-> [m \in NUMERIC_METRICS |-> Num(0, 1)], info |-> {}]

\* A gauge whose set() adds to what it holds, as inc() does.
GaugeSet_accumulating(gauges, header, value) ==
    [gauges EXCEPT ![header] = RAdd(@, value)]

\* Line 231, metrics[header].set(...): the gauge holds the new value and nothing
\* of the old one; one set is atomic (the value's own lock).
GaugeSet(gauges, header, value) ==
    [gauges EXCEPT ![header] = value]

\* One iteration of the for loop of send_to_prometheus, at position i. float(value)
\* of a number succeeds, of a non-numeric text raises ValueError (caught: the gauge
\* is skipped), of None raises TypeError (not caught: the loop is left).
PrometheusStep(data, i, gauges, labels) ==
    LET header == HEADERS[i]
        value == data[i]
        same == [gauges |-> gauges, labels |-> labels, raised |-> FALSE]
    IN  IF header \in NUMERIC_METRICS
           THEN IF value.k = "num"
                   THEN [same EXCEPT !.gauges = GaugeSet(gauges, header, value)]
                ELSE IF value.k = "str"
                   THEN same
                ELSE [same EXCEPT !.raised = TRUE]
        ELSE IF header \in TEXT_LABELS
           THEN [same EXCEPT !.labels = (header :> PyStr(value)) @@ labels]
        ELSE same

\* The for loop of send_to_prometheus from position i on.
RECURSIVE PrometheusLoop(_, _, _, _)
PrometheusLoop(data, i, gauges, labels) ==
    IF i > Len(data)
       THEN [gauges |-> gauges, labels |-> labels, raised |-> FALSE]
    ELSE LET r == PrometheusStep(data, i, gauges, labels)
         IN  IF r.raised THEN r ELSE PrometheusLoop(data, i + 1, r.gauges, r.labels)

\* info_metric.labels(**labels).set(1): the child of this label set is created
\* if new and set to 1; labels() raises when a label name is missing.
InfoLabelsSet(info, labels) ==
    info \cup {labels}

send_to_prometheus(reg, data) ==
    LET r == PrometheusLoop(data, 1, reg.gauges, << >>)
    IN  IF r.raised
           THEN [reg |-> [reg EXCEPT !.gauges = r.gauges], raised |-> TRUE]
        ELSE IF DOMAIN r.labels # TEXT_LABELS
           THEN [reg |-> [reg EXCEPT !.gauges = r.gauges], raised |-> TRUE]
        ELSE [reg |-> [gauges |-> r.gauges, info |-> InfoLabelsSet(reg.info, r.labels)],
              raised |-> FALSE]

-----------------------------------------------------------------------------
(* Process based/main.py: the power probes *)

\* What a probe hands back: a reading in hundredths of a watt (the Python value
\* is rounded to 2 places), None, or an exception on its way up ("raised").
Reading(cw) ==
    [kind |-> "reading", cw |-> cw]

PyNone ==
    [kind |-> "none", cw |-> 0]

Raised ==
    [kind |-> "raised", cw |-> 0]

\* round(n / d, 2) in hundredths is RoundHalfEven(100 * n, d); n, d >= 0.
RoundHalfEven(n, d) ==
    LET q == n \div d
        r == n % d
    IN  IF 2 * r < d THEN q
        ELSE IF 2 * r > d THEN q + 1
        ELSE IF q % 2 = 0 THEN q ELSE q + 1

MICROJOULES_PER_CENTI == 10000

MILLI_PER_CENTI == 10

\* get_power_consumption without its try / except: the exception goes up.
CatchException_absent(r) ==
    r

\* `except Exception as e: print(...); return None`
CatchException(r) ==
    IF r.kind = "raised" THEN PyNone ELSE r

\* Lines 52-55: open, read, int(), / 1e6, round(, 2). The file answers
\* "raises" (open or read fails), "garbage" (int() raises) or a counter "value".
RaplRead(file) ==
    IF file.kind = "value"
       THEN Reading(RoundHalfEven(file.uj, MICROJOULES_PER_CENTI))
       ELSE Raised

\* Lines 58-61 from line i of stdout on: the first line containing "Power" decides,
\* with parts[1] (IndexError without a '|') and float() (ValueError on text such
\* as "na"); the field is in thousandths of a watt. No such line: the loop ends.
RECURSIVE IpmiScan(_, _)
IpmiScan(stdout, i) ==
    IF i > Len(stdout) THEN PyNone
    ELSE IF stdout[i].power
       THEN IF ~stdout[i].pipe \/ ~stdout[i].numeric
               THEN Raised
               ELSE Reading(RoundHalfEven(stdout[i].milli, MILLI_PER_CENTI))
    ELSE IpmiScan(stdout, i + 1)

\* Lines 57-61: subprocess.run may raise (the tool is gone, no permission).
IpmiRead(run) ==
    IF run.raises THEN Raised ELSE IpmiScan(run.stdout, 1)

\* Lines 17-25 from line i on: each labelled line overwrites its figure (mW);
\* a labelled line without ':' or with a non-numeric value raises.
RECURSIVE PowermetricsScan(_, _, _)
PowermetricsScan(stdout, i, acc) ==
    IF i > Len(stdout) THEN acc
    ELSE LET line == stdout[i]
         IN  IF line.label = "other"
                THEN PowermetricsScan(stdout, i + 1, acc)
             ELSE IF ~line.colon \/ ~line.numeric
                THEN [acc EXCEPT !.kind = "raised"]
             ELSE PowermetricsScan(stdout, i + 1, [acc EXCEPT ![line.label] = line.mw])

\* Lines 6-35. The result: None, or the dict (kind "dict") with its total.
get_total_power(powermetrics, run) ==
    IF ~powermetrics THEN [kind |-> "none", total |-> 0]
    ELSE LET scan == IF run.raises
                        THEN [kind |-> "raised", cpu |-> 0, gpu |-> 0, ane |-> 0]
                        ELSE PowermetricsScan(run.stdout, 1,
                                 [kind |-> "dict", cpu |-> 0, gpu |-> 0, ane |-> 0])
         IN  IF scan.kind = "raised"
                THEN [kind |-> "none", total |-> 0]
                ELSE [kind |-> "dict", total |-> scan.cpu + scan.gpu + scan.ane]

\* Lines 63-65: `if power_data:` holds for the dict (it is never empty).
PowermetricsRead(powermetrics, run) ==
    LET power_data == get_total_power(powermetrics, run)
    IN  IF power_data.kind = "dict"
           THEN Reading(RoundHalfEven(power_data.total, MILLI_PER_CENTI))
           ELSE PyNone

\* Lines 51-65 and 69: the if / elif / elif on what is present, and the final
\* `return None` reached when the chosen branch returned nothing.
PowerConsumptionBody(e) ==
    IF e.rapl_dir THEN RaplRead(e.rapl_file)
    ELSE IF e.ipmitool THEN IpmiRead(e.ipmi)
    ELSE IF e.powermetrics THEN PowermetricsRead(e.powermetrics, e.pm)
    ELSE PyNone

\* Lines 48-69.
get_power_consumption(e) ==
    CatchException(PowerConsumptionBody(e))

\* Line 97, `if real_power:`: None and 0.0 are false.
Truthy(r) ==
    r.kind = "reading" /\ r.cw # 0

-----------------------------------------------------------------------------
(* State *)

VARIABLES
    pc,                 \* where the running program is
    write_to_file,      \* app.py: the module flag that enables the CSV sink
    is_apple_silicon,   \* app.py: the platform test made at import
    gpu_available,      \* app.py: NVML was initialized at import
    nvml,               \* the NVML library: "unloaded", "initialized", "shutdown"
    nvml_log,           \* history: the NVML calls made, with the library's state then
    static,             \* app.py: the static facts main collects before the loop
    tick,               \* app.py: number of loop iterations started
    timestamp,          \* app.py main: locals of the current iteration
    run_id,
    power_metrics,
    data,
    csv_file,           \* sustainability_metrics.csv: [exists, rows]
    registry,           \* the CollectorRegistry: [gauges, info]
    tick_events,        \* history: what the current iteration has done so far
    csv_log,            \* history: the rows of the save_to_csv calls that returned
    csv_initial,        \* history: the file as the program found it
    stop_reason,        \* "none", "interrupt" (KeyboardInterrupt), "error"
    interrupted_at,     \* the pc at which KeyboardInterrupt was raised
    env,                \* main.py: what the probe chain's collaborators will answer
    real_power,         \* main.py get_process_details: local
    report,             \* main.py get_process_details: which power lines it printed
    recA,               \* the two rows of the sink scenario
    recB,
    sample,             \* what psutil and NVML answer in the estimator scenario
    pos,                \* send_to_prometheus in progress: [i, labels], i = 0 outside it
    scrape,             \* the HTTP server thread: the scrape in progress
    published           \* history: the rows send_to_prometheus was called with

appVars ==
    << write_to_file, is_apple_silicon, gpu_available, nvml, nvml_log, static, tick,
       timestamp, run_id, power_metrics, data, csv_file, tick_events, csv_log,
       csv_initial, stop_reason, interrupted_at >>

probeVars ==
    << env, real_power, report >>

sinkVars ==
    << recA, recB >>

estVars ==
    << sample >>

scrapeVars ==
    << pos, scrape, published >>

vars ==
    << pc, appVars, registry, probeVars, sinkVars, estVars, scrapeVars >>

-----------------------------------------------------------------------------
(* Bounds and the inputs drawn *)

\* Loop iterations a run may start.
MaxTicks == 2

\* psutil.cpu_percent readings, percent.
CpuPercents ==
    {0, 50, 100}

\* psutil.virtual_memory().used readings, MiB.
RamUsedMiB ==
    {0, 4096}

\* What the two NVML calls of a tick answer: one of them raises, or a reading in mW.
GpuOutcomes ==
    {[ok |-> FALSE, mw |-> 0], [ok |-> TRUE, mw |-> 0], [ok |-> TRUE, mw |-> 30000]}

\* The static facts of one machine. psutil.cpu_count() is None when undetermined.
StaticInfo(cpu_count, region) ==
    [ country_name |-> Str("India"), country_iso_code |-> Str("IN"), region |-> Str(region),
      cloud_provider |-> Str("N"), cloud_region |-> Str("N/A"),
      os_info |-> Str("Linux-5.15"), python_version |-> Str("3.11.4"),
      cpu_count |-> cpu_count, cpu_model |-> Str("x86_64"), cpu_name |-> Str("Unknown"),
      gpu_count |-> Num(0, 1), gpu_model |-> Str("N/A"), gpu_name |-> Str("Unknown GPU"),
      longitude |-> Num(7759, 100), latitude |-> Num(1297, 100),
      ram_total_size |-> Num(16, 1), ram_name |-> Str("Generic RAM") ]

StaticInfos ==
    { StaticInfo(c, "Karnataka") : c \in {None, Num(4, 1)} }

NoData ==
    << >>

\* A file left by an earlier run: its header and one row of that run.
EarlierRunFile ==
    [ exists |-> TRUE,
      rows |-> << HeaderRow,
                  CsvRow(BuildData(Stamp("timestamp", 0), Stamp("run_id", 0), Num(DURATION, 1),
                                   get_power_metrics(50, FALSE, [ok |-> FALSE, mw |-> 0], 4096),
                                   StaticInfo(Num(4, 1), "Karnataka"))) >> ]

AbsentFile ==
    [exists |-> FALSE, rows |-> << >>]

NoEnv ==
    [kind |-> "none"]

NoReading ==
    [kind |-> "unset", cw |-> 0]

NoSample ==
    [cpu_usage |-> 0, gpu |-> [ok |-> FALSE, mw |-> 0], ram_used |-> 0]

\* send_to_prometheus is not running.
NotPublishing ==
    [i |-> 0, labels |-> << >>]

\* No scrape in progress. j: the gauge the scrape in progress collects next (0
\* outside a scrape); last: the value it collected last; agree: of the responses
\* a scrape of one record (or of the new registry) would be, those that hold, for
\* every gauge collected so far, the value collected; history: seen, the rows
\* published when the scrape began; inside, whether it began while a call of
\* send_to_prometheus was in progress or had been left by an exception; crossed,
\* whether a call began during it.
NoScrape ==
    [j |-> 0, last |-> Num(0, 1), agree |-> {}, inside |-> FALSE, crossed |-> FALSE,
     seen |-> 0]

\* The estimator and scrape scenarios' own state while another scenario runs.
OthersIdle ==
    /\ sample = NoSample
    /\ pos = NotPublishing
    /\ scrape = NoScrape
    /\ published = << >>

-----------------------------------------------------------------------------
(* app.py: module import, main *)

LoopPcs ==
    {"loop", "metrics", "build", "csv", "prom", "sleep"}

\* The state when app.py starts to run. write_to_file is the module global of line
\* 15: False as shipped, True once whoever runs main() has switched the CSV sink on;
\* main reads it anew in every iteration. The CSV file may be left from an earlier run.
AppInit ==
    /\ pc = "import"
    /\ write_to_file \in BOOLEAN
    /\ is_apple_silicon \in BOOLEAN
    /\ gpu_available = FALSE
    /\ nvml = "unloaded"
    /\ nvml_log = << >>
    /\ static = StaticInfo(None, "")
    /\ tick = 0
    /\ timestamp = Stamp("timestamp", 0)
    /\ run_id = Stamp("run_id", 0)
    /\ power_metrics = << >>
    /\ data = NoData
    /\ csv_file \in {AbsentFile, EarlierRunFile}
    /\ csv_initial = csv_file
    /\ csv_log = << >>
    /\ registry = EmptyRegistry
    /\ tick_events = << >>
    /\ stop_reason = "none"
    /\ interrupted_at = "none"
    /\ env = NoEnv
    /\ real_power = NoReading
    /\ report = "none"
    /\ recA = NoData
    /\ recB = NoData
    /\ OthersIdle

\* Lines 56-69: on Apple silicon nothing is tried; elsewhere the import of pynvml
\* may fail (nvmlInit is not reached), nvmlInit may raise, or it succeeds.
ImportModule ==
    /\ pc = "import"
    /\ \E outcome \in IF is_apple_silicon THEN {"skipped"}
                      ELSE {"import_fails", "init_fails", "ok"} :
          /\ gpu_available' = (outcome = "ok")
          /\ nvml' = IF outcome = "ok" THEN "initialized" ELSE nvml
          /\ nvml_log' = IF outcome \in {"init_fails", "ok"}
                            THEN Append(nvml_log, [call |-> "init", lib |-> nvml, at |-> tick])
                            ELSE nvml_log
    /\ pc' = "startup"
    /\ UNCHANGED << write_to_file, is_apple_silicon, static, tick, timestamp, run_id,
                    power_metrics, data, csv_file, tick_events, csv_log, csv_initial,
                    stop_reason, interrupted_at, registry, probeVars, sinkVars, estVars, scrapeVars >>

\* Lines 285-288 and 252-256: the HTTP server is started and main collects the
\* static facts, each collector falling back to its defaults on failure.
Startup ==
    /\ pc = "startup"
    /\ static' \in StaticInfos
    /\ pc' = "loop"
    /\ UNCHANGED << write_to_file, is_apple_silicon, gpu_available, nvml, nvml_log, tick,
                    timestamp, run_id, power_metrics, data, csv_file, tick_events, csv_log,
                    csv_initial, stop_reason, interrupted_at, registry, probeVars, sinkVars, estVars, scrapeVars >>

\* Lines 259-262: a new iteration takes its timestamp and run id.
TickStart ==
    /\ pc = "loop"
    /\ tick < MaxTicks
    /\ tick' = tick + 1
    /\ timestamp' = Stamp("timestamp", tick + 1)
    /\ run_id' = Stamp("run_id", tick + 1)
    /\ tick_events' = << >>
    /\ pc' = "metrics"
    /\ UNCHANGED << write_to_file, is_apple_silicon, gpu_available, nvml, nvml_log, static,
                    power_metrics, data, csv_file, csv_log, csv_initial, stop_reason,
                    interrupted_at, registry, probeVars, sinkVars, estVars, scrapeVars >>

\* Line 264: get_power_metrics; NVML is asked only when gpu_available.
GetPowerMetrics ==
    /\ pc = "metrics"
    /\ \E cpu_usage \in CpuPercents, ram_used \in RamUsedMiB,
          gpu \in IF gpu_available THEN GpuOutcomes ELSE {[ok |-> FALSE, mw |-> 0]} :
          /\ power_metrics' = get_power_metrics(cpu_usage, gpu_available, gpu, ram_used)
          /\ nvml_log' = IF gpu_available
                            THEN Append(nvml_log, [call |-> "query", lib |-> nvml, at |-> tick])
                            ELSE nvml_log
    /\ tick_events' = Append(tick_events, "power")
    /\ pc' = "build"
    /\ UNCHANGED << write_to_file, is_apple_silicon, gpu_available, nvml, static, tick,
                    timestamp, run_id, data, csv_file, csv_log, csv_initial, stop_reason,
                    interrupted_at, registry, probeVars, sinkVars, estVars, scrapeVars >>

\* Lines 265-270.
BuildRecord ==
    /\ pc = "build"
    /\ data' = BuildData(timestamp, run_id, Num(DURATION, 1), power_metrics, static)
    /\ tick_events' = Append(tick_events, "build")
    /\ pc' = "csv"
    /\ UNCHANGED << write_to_file, is_apple_silicon, gpu_available, nvml, nvml_log, static,
                    tick, timestamp, run_id, power_metrics, csv_file, csv_log, csv_initial,
                    stop_reason, interrupted_at, registry, probeVars, sinkVars, estVars, scrapeVars >>

\* Lines 272-273: the CSV sink is called only under write_to_file; what it raises
\* is caught by nothing in the loop and leaves it through the finally clause.
CsvSink ==
    /\ pc = "csv"
    /\ IF write_to_file
          THEN \E io \in CsvIoOutcomes(csv_file) :
                  LET r == save_to_csv(csv_file, data, io)
                  IN  /\ csv_file' = r.file
                      /\ IF r.raised
                            THEN /\ pc' = "finally"
                                 /\ stop_reason' = "error"
                                 /\ tick_events' = Append(tick_events, "csv_raised")
                                 /\ csv_log' = csv_log
                            ELSE /\ pc' = "prom"
                                 /\ stop_reason' = stop_reason
                                 /\ tick_events' = Append(tick_events, "csv")
                                 /\ csv_log' = Append(csv_log, data)
          ELSE /\ pc' = "prom"
               /\ UNCHANGED << csv_file, stop_reason, tick_events, csv_log >>
    /\ UNCHANGED << write_to_file, is_apple_silicon, gpu_available, nvml, nvml_log, static,
                    tick, timestamp, run_id, power_metrics, data, csv_initial,
                    interrupted_at, registry, probeVars, sinkVars, estVars, scrapeVars >>

\* Line 275.
PromSink ==
    /\ pc = "prom"
    /\ LET r == send_to_prometheus(registry, data)
       IN  /\ registry' = r.reg
           /\ IF r.raised
                 THEN /\ pc' = "finally"
                      /\ stop_reason' = "error"
                      /\ tick_events' = Append(tick_events, "prom_raised")
                 ELSE /\ pc' = "sleep"
                      /\ stop_reason' = stop_reason
                      /\ tick_events' = Append(tick_events, "prom")
    /\ UNCHANGED << write_to_file, is_apple_silicon, gpu_available, nvml, nvml_log, static,
                    tick, timestamp, run_id, power_metrics, data, csv_file, csv_log,
                    csv_initial, interrupted_at, probeVars, sinkVars, estVars, scrapeVars >>

\* Lines 277-278: the log line and time.sleep(1), then back to the loop head.
Sleep ==
    /\ pc = "sleep"
    /\ tick_events' = Append(tick_events, "sleep")
    /\ pc' = "loop"
    /\ UNCHANGED << write_to_file, is_apple_silicon, gpu_available, nvml, nvml_log, static,
                    tick, timestamp, run_id, power_metrics, data, csv_file, csv_log,
                    csv_initial, stop_reason, interrupted_at, registry, probeVars, sinkVars, estVars, scrapeVars >>

\* Ctrl+C: Python raises KeyboardInterrupt in the main thread between any two
\* bytecodes of the try block, wherever the iteration stands.
Interrupt ==
    /\ pc \in LoopPcs
    /\ stop_reason' = "interrupt"
    /\ interrupted_at' = pc
    /\ pc' = "except"
    /\ UNCHANGED << write_to_file, is_apple_silicon, gpu_available, nvml, nvml_log, static,
                    tick, timestamp, run_id, power_metrics, data, csv_file, tick_events,
                    csv_log, csv_initial, registry, probeVars, sinkVars, estVars, scrapeVars >>

\* Lines 279-280.
ExceptKeyboardInterrupt ==
    /\ pc = "except"
    /\ pc' = "finally"
    /\ UNCHANGED << appVars, registry, probeVars, sinkVars, estVars, scrapeVars >>

\* The finally clause without its `if gpu_available` test.
Finally_unguarded ==
    /\ pc = "finally"
    /\ nvml_log' = Append(nvml_log, [call |-> "shutdown", lib |-> nvml, at |-> tick])
    /\ nvml' = "shutdown"
    /\ pc' = "exit"
    /\ UNCHANGED << write_to_file, is_apple_silicon, gpu_available, static, tick, timestamp,
                    run_id, power_metrics, data, csv_file, tick_events, csv_log, csv_initial,
                    stop_reason, interrupted_at, registry, probeVars, sinkVars, estVars, scrapeVars >>

\* Lines 281-283.
Finally ==
    /\ pc = "finally"
    /\ IF gpu_available
          THEN /\ nvml_log' = Append(nvml_log, [call |-> "shutdown", lib |-> nvml, at |-> tick])
               /\ nvml' = "shutdown"
          ELSE UNCHANGED << nvml, nvml_log >>
    /\ pc' = "exit"
    /\ UNCHANGED << write_to_file, is_apple_silicon, gpu_available, static, tick, timestamp,
                    run_id, power_metrics, data, csv_file, tick_events, csv_log, csv_initial,
                    stop_reason, interrupted_at, registry, probeVars, sinkVars, estVars, scrapeVars >>

Init ==
    AppInit

Next ==
    \/ ImportModule
    \/ Startup
    \/ TickStart
    \/ GetPowerMetrics
    \/ BuildRecord
    \/ CsvSink
    \/ PromSink
    \/ Sleep
    \/ Interrupt
    \/ ExceptKeyboardInterrupt
    \/ Finally

Spec ==
    Init /\ [][Next]_vars

-----------------------------------------------------------------------------
(* Process based/main.py: get_process_details on one machine *)

\* Lines of tool output a run may print.
MaxLines == 2

SeqsUpTo(S, n) ==
    UNION {[1..k -> S] : k \in 0..n}

\* /sys/class/powercap/intel-rapl is absent, or present with energy_uj unreadable
\* (missing, root-only), not a number, or a counter value in microjoules. The
\* counter is cumulative: uj is what a read finds now, uj_later what a read one
\* second later would find (the package draws 15 W in both samples).
RaplStates ==
    {[dir |-> FALSE, file |-> [kind |-> "raises", uj |-> 0, uj_later |-> 0]]}
    \cup {[dir |-> TRUE, file |-> f] :
            f \in {[kind |-> "raises", uj |-> 0, uj_later |-> 0],
                   [kind |-> "garbage", uj |-> 0, uj_later |-> 0],
                   [kind |-> "value", uj |-> 4000, uj_later |-> 15004000],
                   [kind |-> "value", uj |-> 42000000, uj_later |-> 57000000]}}

\* `ipmitool sensor` lines: "Fan1 | 4200.000 | RPM", "Power Meter | 42.000 | Watts",
\* "Power Meter | na | Watts", "Get Power Reading failed".
IpmiLines ==
    { [power |-> FALSE, pipe |-> TRUE, numeric |-> TRUE, milli |-> 4200000],
      [power |-> TRUE, pipe |-> TRUE, numeric |-> TRUE, milli |-> 42000],
      [power |-> TRUE, pipe |-> TRUE, numeric |-> FALSE, milli |-> 0],
      [power |-> TRUE, pipe |-> FALSE, numeric |-> FALSE, milli |-> 0] }

\* A tool that is not installed, or installed with a run that raises or prints.
ToolStates(lines) ==
    {[present |-> FALSE, run |-> [raises |-> TRUE, stdout |-> << >>]]}
    \cup {[present |-> TRUE, run |-> [raises |-> TRUE, stdout |-> << >>]]}
    \cup {[present |-> TRUE, run |-> [raises |-> FALSE, stdout |-> out]] :
            out \in SeqsUpTo(lines, MaxLines)}

\* powermetrics lines: "Machine model: ...", "CPU Power: 30000 mW", "GPU Power:
\* 12000 mW", "ANE Power: 5 mW", "CPU Power unavailable".
PowermetricsLines ==
    { [label |-> "other", colon |-> TRUE, numeric |-> FALSE, mw |-> 0],
      [label |-> "cpu", colon |-> TRUE, numeric |-> TRUE, mw |-> 30000],
      [label |-> "gpu", colon |-> TRUE, numeric |-> TRUE, mw |-> 12000],
      [label |-> "ane", colon |-> TRUE, numeric |-> TRUE, mw |-> 5],
      [label |-> "cpu", colon |-> FALSE, numeric |-> FALSE, mw |-> 0] }

Envs ==
    { [rapl_dir |-> r.dir, rapl_file |-> r.file, ipmitool |-> i.present, ipmi |-> i.run,
       powermetrics |-> p.present, pm |-> p.run] :
          r \in RaplStates, i \in ToolStates(IpmiLines), p \in ToolStates(PowermetricsLines) }

\* The sampling loop's state while another program of the repository runs.
AppIdle ==
    /\ write_to_file = FALSE
    /\ is_apple_silicon = FALSE
    /\ gpu_available = FALSE
    /\ nvml = "unloaded"
    /\ nvml_log = << >>
    /\ static = StaticInfo(None, "")
    /\ tick = 0
    /\ timestamp = Stamp("timestamp", 0)
    /\ run_id = Stamp("run_id", 0)
    /\ power_metrics = << >>
    /\ data = NoData
    /\ csv_file = AbsentFile
    /\ csv_initial = AbsentFile
    /\ csv_log = << >>
    /\ tick_events = << >>
    /\ stop_reason = "none"
    /\ interrupted_at = "none"

ProbeInit ==
    /\ pc = "pd_start"
    /\ AppIdle
    /\ registry = EmptyRegistry
    /\ env \in Envs
    /\ real_power = NoReading
    /\ report = "none"
    /\ recA = NoData
    /\ recB = NoData
    /\ OthersIdle

\* Lines 83-85: psutil raises NoSuchProcess / AccessDenied for a pid it cannot
\* inspect; get_process_details catches that and prints its one-line notice.
PdOpenProcess ==
    /\ pc = "pd_start"
    /\ \E found \in BOOLEAN :
          /\ pc' = IF found THEN "pd_probe" ELSE "pd_done"
          /\ report' = IF found THEN report ELSE "not_found"
    /\ UNCHANGED << appVars, registry, env, real_power, sinkVars, estVars, scrapeVars >>

\* Line 86. An exception leaving get_power_consumption is caught by nothing in
\* get_process_details (its except clause names psutil's exceptions only).
PdProbe ==
    /\ pc = "pd_probe"
    /\ real_power' = get_power_consumption(env)
    /\ pc' = IF real_power'.kind = "raised" THEN "pd_raised" ELSE "pd_print"
    /\ UNCHANGED << appVars, registry, env, report, sinkVars, estVars, scrapeVars >>

\* Lines 87-95: the estimates are computed and the process details printed; the
\* process may have gone meanwhile.
PdPrintDetails ==
    /\ pc = "pd_print"
    /\ \E alive \in BOOLEAN :
          /\ pc' = IF alive THEN "pd_power" ELSE "pd_done"
          /\ report' = IF alive THEN report ELSE "not_found"
    /\ UNCHANGED << appVars, registry, env, real_power, sinkVars, estVars, scrapeVars >>

\* Lines 97-101.
PdPrintPower ==
    /\ pc = "pd_power"
    /\ report' = IF Truthy(real_power) THEN "measured" ELSE "estimated"
    /\ pc' = "pd_done"
    /\ UNCHANGED << appVars, registry, env, real_power, sinkVars, estVars, scrapeVars >>

ProbeNext ==
    \/ PdOpenProcess
    \/ PdProbe
    \/ PdPrintDetails
    \/ PdPrintPower

SpecProbe ==
    ProbeInit /\ [][ProbeNext]_vars

-----------------------------------------------------------------------------
(* app.py: send_to_prometheus called on two rows in succession *)

\* Rows as main builds them, of machines that differ in load, region and cores.
SinkRecords ==
    { BuildData(Stamp("timestamp", 1), Stamp("run_id", 1), Num(DURATION, 1),
                get_power_metrics(cpu, FALSE, [ok |-> FALSE, mw |-> 0], 4096),
                StaticInfo(Num(cores, 1), region)) :
          cpu \in CpuPercents, cores \in {4, 8}, region \in {"Karnataka", "Bavaria"} }

SinkInit ==
    /\ pc = "publish_a"
    /\ AppIdle
    /\ registry = EmptyRegistry
    /\ env = NoEnv
    /\ real_power = NoReading
    /\ report = "none"
    /\ recA \in SinkRecords
    /\ recB \in SinkRecords
    /\ OthersIdle

PublishA ==
    /\ pc = "publish_a"
    /\ LET r == send_to_prometheus(registry, recA)
       IN  /\ registry' = r.reg
           /\ pc' = IF r.raised THEN "publish_raised" ELSE "publish_b"
    /\ UNCHANGED << appVars, probeVars, sinkVars, estVars, scrapeVars >>

PublishB ==
    /\ pc = "publish_b"
    /\ LET r == send_to_prometheus(registry, recB)
       IN  /\ registry' = r.reg
           /\ pc' = IF r.raised THEN "publish_raised" ELSE "published"
    /\ UNCHANGED << appVars, probeVars, sinkVars, estVars, scrapeVars >>

SinkNext ==
    \/ PublishA
    \/ PublishB

SpecSink ==
    SinkInit /\ [][SinkNext]_vars

-----------------------------------------------------------------------------
(* app.py: get_power_metrics on one set of readings *)

\* psutil.cpu_percent is a percentage of the whole machine.
EstimateCpuPercents ==
    0..100

\* psutil.virtual_memory().used, MiB: nothing, 1.5 GB, 4 GB.
EstimateRamUsedMiB ==
    {0, 1536, 4096}

\* The readings of one call: with NVML not initialized it is not asked at all.
Samples(gpu_is_available) ==
    { [cpu_usage |-> c, gpu |-> g, ram_used |-> r] :
          c \in EstimateCpuPercents, r \in EstimateRamUsedMiB,
          g \in IF gpu_is_available THEN GpuOutcomes ELSE {[ok |-> FALSE, mw |-> 0]} }

EstimateInit ==
    /\ pc = "estimate"
    /\ write_to_file = FALSE
    /\ is_apple_silicon = FALSE
    /\ gpu_available \in BOOLEAN
    /\ nvml = IF gpu_available THEN "initialized" ELSE "unloaded"
    /\ nvml_log = << >>
    /\ static = StaticInfo(None, "")
    /\ tick = 0
    /\ timestamp = Stamp("timestamp", 0)
    /\ run_id = Stamp("run_id", 0)
    /\ power_metrics = << >>
    /\ data = NoData
    /\ csv_file = AbsentFile
    /\ csv_initial = AbsentFile
    /\ csv_log = << >>
    /\ tick_events = << >>
    /\ stop_reason = "none"
    /\ interrupted_at = "none"
    /\ registry = EmptyRegistry
    /\ env = NoEnv
    /\ real_power = NoReading
    /\ report = "none"
    /\ recA = NoData
    /\ recB = NoData
    /\ sample \in Samples(gpu_available)
    /\ pos = NotPublishing
    /\ scrape = NoScrape
    /\ published = << >>

\* Lines 177-204: one call of get_power_metrics.
Estimate ==
    /\ pc = "estimate"
    /\ power_metrics' = get_power_metrics(sample.cpu_usage, gpu_available, sample.gpu,
                                          sample.ram_used)
    /\ pc' = "estimated"
    /\ UNCHANGED << write_to_file, is_apple_silicon, gpu_available, nvml, nvml_log, static,
                    tick, timestamp, run_id, data, csv_file, tick_events, csv_log,
                    csv_initial, stop_reason, interrupted_at, registry, probeVars,
                    sinkVars, estVars, scrapeVars >>

EstimateNext ==
    Estimate

SpecEstimate ==
    EstimateInit /\ [][EstimateNext]_vars

-----------------------------------------------------------------------------
(* app.py: the HTTP server thread scrapes while the loop publishes *)

\* Lines 42-45: the gauges in the order they were registered, which is the order
\* a scrape collects them in.
RegisteredGauges ==
    SelectSeq(HEADERS, LAMBDA header : header \in NUMERIC_METRICS)

\* Lines 285-288 after the static facts were collected: the server thread is up,
\* the loop is about to start.
ScrapeInit ==
    /\ pc = "sc_idle"
    /\ write_to_file = FALSE
    /\ is_apple_silicon = FALSE
    /\ gpu_available = FALSE
    /\ nvml = "unloaded"
    /\ nvml_log = << >>
    /\ static \in StaticInfos
    /\ tick = 0
    /\ timestamp = Stamp("timestamp", 0)
    /\ run_id = Stamp("run_id", 0)
    /\ power_metrics = << >>
    /\ data = NoData
    /\ csv_file = AbsentFile
    /\ csv_initial = AbsentFile
    /\ csv_log = << >>
    /\ tick_events = << >>
    /\ stop_reason = "none"
    /\ interrupted_at = "none"
    /\ registry = EmptyRegistry
    /\ env = NoEnv
    /\ real_power = NoReading
    /\ report = "none"
    /\ recA = NoData
    /\ recB = NoData
    /\ sample = NoSample
    /\ pos = NotPublishing
    /\ scrape = NoScrape
    /\ published = << >>

\* Lines 259-270 and the entry of send_to_prometheus (lines 275, 223): the row of
\* a new tick is built and the for loop is about to look at its first cell.
BeginPublish ==
    /\ pc = "sc_idle"
    /\ tick < MaxTicks
    /\ tick' = tick + 1
    /\ timestamp' = Stamp("timestamp", tick + 1)
    /\ run_id' = Stamp("run_id", tick + 1)
    /\ \E cpu_usage \in CpuPercents :
          power_metrics' = get_power_metrics(cpu_usage, gpu_available,
                                             [ok |-> FALSE, mw |-> 0], 4096)
    /\ data' = BuildData(timestamp', run_id', Num(DURATION, 1), power_metrics', static)
    /\ pos' = [i |-> 1, labels |-> << >>]
    /\ published' = Append(published, data')
    /\ scrape' = IF scrape.j > 0 THEN [scrape EXCEPT !.crossed = TRUE] ELSE scrape
    /\ pc' = "sc_loop"
    /\ UNCHANGED << write_to_file, is_apple_silicon, gpu_available, nvml, nvml_log, static,
                    csv_file, tick_events, csv_log, csv_initial, stop_reason,
                    interrupted_at, registry, probeVars, sinkVars, estVars >>

\* Lines 225-236: one iteration of the for loop; the TypeError of float(None)
\* leaves send_to_prometheus and the loop of main.
PublishStep ==
    /\ pc = "sc_loop"
    /\ pos.i \in 1..Len(data)
    /\ LET r == PrometheusStep(data, pos.i, registry.gauges, pos.labels)
       IN  /\ registry' = [registry EXCEPT !.gauges = r.gauges]
           /\ pos' = IF r.raised THEN NotPublishing ELSE [i |-> pos.i + 1, labels |-> r.labels]
           /\ pc' = IF r.raised THEN "sc_raised" ELSE "sc_loop"
    /\ UNCHANGED << appVars, probeVars, sinkVars, estVars, scrape, published >>

\* Lines 238-240 and the sleep of line 278: the for loop is through, the info
\* child of the labels is set and send_to_prometheus returns.
PublishInfo ==
    /\ pc = "sc_loop"
    /\ pos.i > Len(data)
    /\ IF DOMAIN pos.labels # TEXT_LABELS
          THEN /\ pc' = "sc_raised"
               /\ registry' = registry
          ELSE /\ pc' = "sc_idle"
               /\ registry' = [registry EXCEPT !.info = InfoLabelsSet(@, pos.labels)]
    /\ pos' = NotPublishing
    /\ UNCHANGED << appVars, probeVars, sinkVars, estVars, scrape, published >>

\* What a scrape returns when every gauge holds the cell of this one row.
GaugesOf(row) ==
    [k \in 1..Len(RegisteredGauges) |->
        row[CHOOSE i \in 1..Len(HEADERS) : HEADERS[i] = RegisteredGauges[k]]]

\* Lines 42-45: what a scrape of the new registry returns.
InitialGauges ==
    [k \in 1..Len(RegisteredGauges) |-> EmptyRegistry.gauges[RegisteredGauges[k]]]

\* The responses that show one state of things: the new registry, or the row of
\* one tick on this machine.
SingleRecordResponses(st) ==
    {InitialGauges}
    \cup { GaugesOf(BuildData(Stamp("timestamp", 1), Stamp("run_id", 1), Num(DURATION, 1),
                              get_power_metrics(cpu_usage, FALSE, [ok |-> FALSE, mw |-> 0],
                                                4096),
                              st)) : cpu_usage \in CpuPercents }

\* Line 287: the server thread accepts a GET /metrics at any moment.
ScrapeBegin ==
    /\ scrape.j = 0
    /\ scrape' = [j |-> 1, last |-> Num(0, 1), agree |-> SingleRecordResponses(static),
                  inside |-> (pc # "sc_idle"), crossed |-> FALSE,
                  seen |-> Len(published)]
    /\ UNCHANGED << pc, appVars, registry, probeVars, sinkVars, estVars, pos, published >>

\* The scrape collects the next registered gauge: one atomic get of its value.
ScrapeRead ==
    /\ scrape.j \in 1..Len(RegisteredGauges)
    /\ LET value == registry.gauges[RegisteredGauges[scrape.j]]
       IN  scrape' = [scrape EXCEPT !.j = @ + 1,
                                    !.last = value,
                                    !.agree = {g \in @ : g[scrape.j] = value}]
    /\ UNCHANGED << pc, appVars, registry, probeVars, sinkVars, estVars, pos, published >>

\* All gauges collected: the response is written and the thread keeps none of it.
ScrapeEnd ==
    /\ scrape.j = Len(RegisteredGauges) + 1
    /\ scrape' = NoScrape
    /\ UNCHANGED << pc, appVars, registry, probeVars, sinkVars, estVars, pos, published >>

ScrapeNext ==
    \/ BeginPublish
    \/ PublishStep
    \/ PublishInfo
    \/ ScrapeBegin
    \/ ScrapeRead
    \/ ScrapeEnd

SpecScrape ==
    ScrapeInit /\ [][ScrapeNext]_vars

-----------------------------------------------------------------------------
(* Properties of the sampling loop *)

Given(event) ==
    \E i \in 1..Len(tick_events) : tick_events[i] = event

\* The value get_power_metrics returned for the metric of this name.
PowerMetricValue(name) ==
    power_metrics[CHOOSE j \in 1..Len(POWER_METRIC_NAMES) : POWER_METRIC_NAMES[j] = name]

PowerMetricFields ==
    {POWER_METRIC_NAMES[j] : j \in 1..Len(POWER_METRIC_NAMES)}

\* The row of the current iteration has been built and is being published.
Publishing ==
    pc \in {"csv", "prom", "sleep"}

\* C2: when save_to_csv raises on the row of an iteration, the loop is not left
\* (it goes on to the registry sink with the same row and then to the sleep).
C2_CsvFailureContained ==
    Given("csv_raised") => (pc \in LoopPcs /\ (pc \in {"sleep", "loop"} => Given("prom")))

\* C3: in the row handed to the sinks, the value at the position of each header
\* that names a power metric is the value get_power_metrics returned for that
\* metric, the duration column holds the duration, and once the registry sink
\* has taken the row, the gauge of each such metric holds that value too.
C3_FiledUnderOwnName ==
    Publishing =>
        /\ \A i \in 1..Len(HEADERS) :
              /\ HEADERS[i] \in PowerMetricFields => data[i] = PowerMetricValue(HEADERS[i])
              /\ HEADERS[i] = "duration" => data[i] = Num(DURATION, 1)
        /\ pc = "sleep" =>
              \A m \in PowerMetricFields : registry.gauges[m] = PowerMetricValue(m)

\* C4: an iteration that reaches its sleep has, in this order, obtained the power
\* figures, built the row, given it to the CSV sink, given it to the registry sink;
\* and the next iteration starts only after the sleep.
C4_TickOrder ==
    /\ pc = "sleep" => tick_events = << "power", "build", "csv", "prom" >>
    /\ (pc = "loop" /\ tick > 0) =>
          tick_events = << "power", "build", "csv", "prom", "sleep" >>

RowsOf(log) ==
    [i \in 1..Len(log) |-> CsvRow(log[i])]

HeaderCount(rows) ==
    Cardinality({i \in 1..Len(rows) : rows[i] = HeaderRow})

\* C5: the file holds what it held when the program found it (when it was absent:
\* exactly one header row) followed by one row per save_to_csv call that returned,
\* in call order, every row as wide as the header; a call on an existing file
\* adds no header; no file exists before the first call creates it.
C5_CsvHeaderOnceRowsInOrder ==
    /\ csv_file.exists =>
          /\ csv_file.rows = (IF csv_initial.exists THEN csv_initial.rows ELSE << HeaderRow >>)
                             \o RowsOf(csv_log)
          /\ HeaderCount(csv_file.rows) = 1
          /\ \A i \in 1..Len(csv_file.rows) :
                Len(csv_file.rows[i]) = Len(HeaderRow) /\ Len(csv_file.rows[i]) = 32
    /\ ~csv_file.exists => (csv_log = << >> /\ ~csv_initial.exists)

\* C5 witness: two calls on a file that was absent at the start.
C5_Witness ==
    /\ ~csv_initial.exists
    /\ Len(csv_log) >= 2
    /\ Len(csv_file.rows) = 1 + Len(csv_log)

\* C9: when KeyboardInterrupt ends the loop while an iteration is in progress, the
\* row of that iteration has been given to the registry sink, and to the CSV sink
\* when that one is enabled, before the handler and the finally clause run.
C9_ShutdownDeferred ==
    (stop_reason = "interrupt" /\ interrupted_at # "loop") =>
        (Given("prom") /\ (write_to_file => Given("csv")))

Calls(name) ==
    {i \in 1..Len(nvml_log) : nvml_log[i].call = name}

\* C10: nvmlInit is called at most once and before the first iteration; NVML is shut
\* down only while initialized (so never twice, never when it was not acquired);
\* it is asked for power only while initialized; and when the program has left the
\* loop and its finally clause, by KeyboardInterrupt or by an error raised in an
\* iteration, it was shut down exactly once if nvmlInit succeeded and not at all
\* otherwise.
C10_NvmlLifecycle ==
    /\ Cardinality(Calls("init")) <= 1
    /\ \A i \in Calls("init") : nvml_log[i].at = 0 /\ nvml_log[i].lib = "unloaded"
    /\ \A i \in Calls("shutdown") : nvml_log[i].lib = "initialized"
    /\ \A i \in Calls("query") : nvml_log[i].lib = "initialized"
    /\ pc # "exit" => Calls("shutdown") = {}
    /\ pc = "exit" =>
          /\ stop_reason \in {"interrupt", "error"}
          /\ Cardinality(Calls("shutdown")) = (IF nvml = "unloaded" THEN 0 ELSE 1)
          /\ nvml # "initialized"

\* C10 witness: an error raised in the second iteration ended the loop, NVML had
\* been asked for power, and it was shut down.
C10_Witness ==
    /\ pc = "exit"
    /\ stop_reason = "error"
    /\ tick = 2
    /\ Calls("query") # {}
    /\ Calls("shutdown") # {}

-----------------------------------------------------------------------------
(* Properties of the probe chain *)

\* get_power_consumption has returned to get_process_details.
Probed ==
    pc \in {"pd_print", "pd_power", "pd_done"} /\ real_power.kind # "unset"

\* Each source taken on its own: absent, failing or unparsable is a failure (None).
RaplSource(e) ==
    IF e.rapl_dir THEN CatchException(RaplRead(e.rapl_file)) ELSE PyNone

IpmiSource(e) ==
    IF e.ipmitool THEN CatchException(IpmiRead(e.ipmi)) ELSE PyNone

PowermetricsSource(e) ==
    IF e.powermetrics THEN CatchException(PowermetricsRead(e.powermetrics, e.pm)) ELSE PyNone

FirstSuccess(e) ==
    IF RaplSource(e).kind = "reading" THEN RaplSource(e)
    ELSE IF IpmiSource(e).kind = "reading" THEN IpmiSource(e)
    ELSE IF PowermetricsSource(e).kind = "reading" THEN PowermetricsSource(e)
    ELSE PyNone

\* C1: get_power_consumption returns the reading of the first of the energy-counter
\* file, ipmitool, powermetrics that succeeds, a failed source passing the turn to
\* the next one, and None exactly when all three fail.
C1_FirstSuccessInPriorityOrder ==
    Probed => real_power = FirstSuccess(env)

\* C7: whatever is missing, fails or is unparsable, get_power_consumption hands
\* get_process_details a reading or None and never an exception, get_total_power
\* hands back its dict or None, and get_process_details goes on to its printing.
C7_ProbeNeverRaises ==
    /\ pc # "pd_raised"
    /\ real_power.kind \in {"unset", "reading", "none"}
    /\ pc \in {"pd_print", "pd_power"} => real_power.kind \in {"reading", "none"}
    /\ get_power_consumption(env).kind \in {"reading", "none"}
    /\ get_total_power(env.powermetrics, env.pm).kind \in {"dict", "none"}

\* C7 witness: the counter file is there but unreadable, the probe returned None
\* and the report was printed.
C7_Witness ==
    /\ pc = "pd_done"
    /\ report = "estimated"
    /\ env.rapl_dir
    /\ env.rapl_file.kind = "raises"
    /\ real_power = PyNone

\* C8: get_process_details prints the measured wattage exactly when the probe
\* chain returned a reading (0 W included), and the estimates exactly when it
\* returned None.
C8_FallbackIffUnavailable ==
    (pc = "pd_done" /\ report \in {"measured", "estimated"}) =>
        (report = "measured" <=> real_power.kind = "reading")

-----------------------------------------------------------------------------
(* Properties of the registry sink *)

\* The label set send_to_prometheus derives from a row.
LabelsOf(row) ==
    [h \in TEXT_LABELS |-> PyStr(row[CHOOSE i \in 1..Len(HEADERS) : HEADERS[i] = h])]

\* C6: after send_to_prometheus(A) then send_to_prometheus(B), every numeric gauge
\* reads the value B holds in that gauge's column, and sustainability_info exposes
\* B's label set and no other.
C6_RegistryOverwrites ==
    pc = "published" =>
        /\ \A i \in 1..Len(HEADERS) :
              HEADERS[i] \in NUMERIC_METRICS => registry.gauges[HEADERS[i]] = recB[i]
        /\ registry.info = {LabelsOf(recB)}

-----------------------------------------------------------------------------
(* Properties of the estimator *)

\* Energies are multiples of 1 / EnergyScale kWh and emissions of 1 / EmissionScale
\* kg for the readings drawn; Scaled(v, s) is v in units of 1 / s.
EnergyScale ==
    SECONDS_PER_HOUR * WATTS_PER_KW * 20

EmissionScale ==
    EnergyScale * 5

Scaled(v, scale) ==
    v.n * (scale \div v.d)

Whole(v, scale) ==
    v.k = "num" /\ v.d > 0 /\ scale % v.d = 0

Metric(name) ==
    power_metrics[CHOOSE j \in 1..Len(POWER_METRIC_NAMES) : POWER_METRIC_NAMES[j] = name]

\* C11: in the tuple get_power_metrics returns, energy_consumed is the sum of
\* cpu_energy, gpu_energy and ram_energy, and none of the nine figures is negative,
\* whatever the CPU load, the RAM in use and the GPU (read, absent or failing).
C11_EnergySumNonNegative ==
    pc = "estimated" =>
        /\ \A j \in 1..Len(power_metrics) : power_metrics[j].n >= 0 /\ power_metrics[j].d > 0
        /\ \A name \in {"cpu_energy", "gpu_energy", "ram_energy", "energy_consumed"} :
              Whole(Metric(name), EnergyScale)
        /\ Scaled(Metric("energy_consumed"), EnergyScale)
              = Scaled(Metric("cpu_energy"), EnergyScale)
                + Scaled(Metric("gpu_energy"), EnergyScale)
                + Scaled(Metric("ram_energy"), EnergyScale)

\* C11 witness: all three components contribute (CPU at 50 %, a GPU drawing 30 W,
\* 4 GB of RAM in use).
C11_Witness ==
    /\ pc = "estimated"
    /\ sample.cpu_usage = 50
    /\ sample.ram_used = 4096
    /\ gpu_available /\ sample.gpu.ok /\ sample.gpu.mw = 30000
    /\ Metric("gpu_energy").n > 0

\* a <= b for rationals with small terms.
RatLe(a, b) ==
    a.n * b.d <= b.n * a.d

\* C12: for every CPU percentage 0..100, RAM in use and GPU reading, cpu_power is
\* cpuPercent / 100 * 65 (0 at 0 %, 65 at 100 %, non-decreasing in cpuPercent),
\* ram_power is 2 W per GB in use, gpu_power is the NVML reading in mW / 1000 or 0
\* without one, each energy is its power * (duration / 3600) / 1000, emissions is
\* energy_consumed * 400 / 1000, emissions_rate * duration is emissions; and 50 %,
\* 4 GB, no GPU, 1 s give 32.5 W, 8 W and 1.125e-5 kWh (9 / 800000).
C12_ReferenceFormulas ==
    pc = "estimated" =>
        LET cpu == Metric("cpu_power")
            gpu == Metric("gpu_power")
            ram == Metric("ram_power")
            gpu_read == gpu_available /\ sample.gpu.ok
        IN  /\ cpu.n * 100 = sample.cpu_usage * 65 * cpu.d
            /\ sample.cpu_usage = 0 => cpu.n = 0
            /\ sample.cpu_usage = 100 => (cpu.n = 65 /\ cpu.d = 1)
            /\ \A c \in EstimateCpuPercents :
                  c >= sample.cpu_usage =>
                     RatLe(cpu, get_power_metrics(c, gpu_available, sample.gpu,
                                                  sample.ram_used)[1])
            /\ ram.n * 1024 = sample.ram_used * 2 * ram.d
            /\ IF gpu_read THEN gpu.n * 1000 = sample.gpu.mw * gpu.d ELSE gpu.n = 0
            /\ \A part \in {"cpu", "gpu", "ram"} :
                  LET power == Metric(part \o "_power")
                      energy == Metric(part \o "_energy")
                  IN  /\ Whole(energy, EnergyScale)
                      /\ Scaled(energy, EnergyScale) * power.d * SECONDS_PER_HOUR
                            = power.n * 20 * DURATION * SECONDS_PER_HOUR
            /\ Whole(Metric("energy_consumed"), EnergyScale)
            /\ Whole(Metric("emissions"), EmissionScale)
            /\ Whole(Metric("emissions_rate"), EmissionScale)
            /\ Scaled(Metric("emissions"), EmissionScale) * 1000
                  = Scaled(Metric("energy_consumed"), EnergyScale) * 5 * 400
            /\ Scaled(Metric("emissions_rate"), EmissionScale) * DURATION
                  = Scaled(Metric("emissions"), EmissionScale)
            /\ (sample.cpu_usage = 50 /\ sample.ram_used = 4096 /\ ~gpu_read) =>
                  /\ cpu.n = 65 /\ cpu.d = 2
                  /\ ram.n = 8 /\ ram.d = 1
                  /\ Metric("energy_consumed").n = 9
                  /\ Metric("energy_consumed").d = 800000

\* C12 witness: the worked example (50 %, 4 GB, no GPU).
C12_Witness ==
    /\ pc = "estimated"
    /\ sample.cpu_usage = 50
    /\ sample.ram_used = 4096
    /\ ~gpu_available
    /\ Metric("cpu_power") = Num(65, 2)

-----------------------------------------------------------------------------
(* Properties of the energy-counter probe *)

\* C13: with the energy-counter file readable, get_power_consumption returns the
\* counter's increase over one second / 1e6 as watts (rounded to 2 places), which
\* is the same for any absolute value of the counter.
C13_WattsFromCounterDelta ==
    (Probed /\ env.rapl_dir /\ env.rapl_file.kind = "value") =>
        real_power = Reading(RoundHalfEven(env.rapl_file.uj_later - env.rapl_file.uj,
                                           MICROJOULES_PER_CENTI))

-----------------------------------------------------------------------------
(* Properties of scrapes concurrent with the sink *)

\* The cell of a row under a header.
ColumnOf(row, header) ==
    row[CHOOSE i \in 1..Len(HEADERS) : HEADERS[i] = header]

\* The scrape has collected every gauge and its response is complete.
ScrapeAnswered ==
    scrape.j = Len(RegisteredGauges) + 1

\* No call of send_to_prometheus overlaps the scrape.
ScrapeOverlapsNoCall ==
    ~scrape.inside /\ ~scrape.crossed

\* C14 as stated: for every interleaving of a scrape with the per-gauge set calls,
\* the gauge values one scrape returns all come from a single published record
\* (or are all still the initial ones), never from a mix of two ticks' records.
C14_ScrapeFromSingleRecord ==
    ScrapeAnswered =>
        \/ InitialGauges \in scrape.agree
        \/ \E r \in 1..Len(published) : GaugesOf(published[r]) \in scrape.agree

\* C14 amended: every gauge value a scrape returns is the initial 0 or the cell
\* that one row given to send_to_prometheus holds under that gauge's name, and
\* the values of a scrape that overlaps no call of send_to_prometheus all come
\* from the single latest row published (the initial ones before the first).
C14_ScrapeValuesPublished ==
    /\ scrape.j > 1 =>
          \/ scrape.last = Num(0, 1)
          \/ \E r \in 1..Len(published) :
                scrape.last = ColumnOf(published[r], RegisteredGauges[scrape.j - 1])
    /\ (ScrapeAnswered /\ ScrapeOverlapsNoCall) =>
          (IF scrape.seen = 0 THEN InitialGauges ELSE GaugesOf(published[scrape.seen]))
              \in scrape.agree

\* A scrape that began after the first call had returned and was overtaken by the
\* second is complete and is the response of no single record: it holds values of
\* the first row next to values of the second.
C14_Witness ==
    /\ ScrapeAnswered
    /\ ~scrape.inside
    /\ scrape.crossed
    /\ scrape.seen = 1
    /\ Len(published) = 2
    /\ scrape.agree = {}
    /\ scrape.last = ColumnOf(published[2], RegisteredGauges[Len(RegisteredGauges)])

\* A scrape answered between two calls returned the row of the call before it.
C14_WitnessQuiet ==
    ScrapeAnswered /\ ScrapeOverlapsNoCall /\ scrape.seen > 0

====
